---- MODULE Spec2Model ----
(***************************************************************************)
(* Stock and price synchronisation of the seller-apis repository:          *)
(* seller.py (Marketplace A, Ozon, counter pagination) and market.py       *)
(* (Marketplace B, Yandex.Market, token pagination, two campaigns).        *)
(***************************************************************************)
EXTENDS Integers, Sequences, FiniteSets, TLC

(***************************************************************************)
(* Bounds of the model.                                                    *)
(***************************************************************************)
MaxId == 2
MaxStockId == 3
MaxFeed == 2
MaxRunFeed == 1
MaxRemote == 2
MaxPageItems == 1
MaxPages == 2
MaxClock == 1
MaxChunks == 2
MaxItems == 4
MaxSize == 3

(***************************************************************************)
(* Program constants: the chunk sizes passed to divide.                    *)
(***************************************************************************)
SellerStockChunk == 100
SellerPriceChunk == 900
SellerUploadPriceChunk == 1000
MarketStockChunk == 2000
MarketPriceChunk == 500

Ids == 1..MaxId
StockIds == 1..MaxStockId

None == "None"

(***************************************************************************)
(* Strings whose characters the code inspects are sequences of one-        *)
(* character strings.                                                      *)
(***************************************************************************)
Digits == {"0", "1", "2", "3", "4", "5", "6", "7", "8", "9"}

DigitVal(c) ==
    CASE c = "0" -> 0 [] c = "1" -> 1 [] c = "2" -> 2 [] c = "3" -> 3
      [] c = "4" -> 4 [] c = "5" -> 5 [] c = "6" -> 6 [] c = "7" -> 7
      [] c = "8" -> 8 [] c = "9" -> 9

RECURSIVE DigitsValue(_)
DigitsValue(s) ==
    IF s = <<>> THEN 0
    ELSE 10 * DigitsValue(SubSeq(s, 1, Len(s) - 1)) + DigitVal(s[Len(s)])

AllDigits(s) == \A i \in 1..Len(s) : s[i] \in Digits

\* Python int(str): an optional sign followed by at least one digit;
\* anything else raises ValueError.
int(s) ==
    LET signed == Len(s) > 0 /\ s[1] \in {"-", "+"}
        body == IF signed THEN Tail(s) ELSE s
    IN  IF body = <<>> \/ ~AllDigits(body)
        THEN [err |-> TRUE, val |-> 0]
        ELSE [err |-> FALSE,
              val |-> IF signed /\ s[1] = "-" THEN 0 - DigitsValue(body)
                      ELSE DigitsValue(body)]

\* price.split(".")[0]: the part before the first decimal point.
RECURSIVE SplitFirst(_)
SplitFirst(s) ==
    IF s = <<>> \/ Head(s) = "." THEN <<>>
    ELSE <<Head(s)>> \o SplitFirst(Tail(s))

\* re.sub("[^0-9]", "", ...): keep the digits only.
RECURSIVE KeepDigits(_)
KeepDigits(s) ==
    IF s = <<>> THEN <<>>
    ELSE (IF Head(s) \in Digits THEN <<Head(s)>> ELSE <<>>) \o KeepDigits(Tail(s))

price_conversion(price) == KeepDigits(SplitFirst(price))

(***************************************************************************)
(* List helpers of Python: "x in lst" and lst.remove(x).                   *)
(***************************************************************************)
\* A membership test that looks at the first element only.
InHead(x, lst) == lst # <<>> /\ lst[1] = x

In(x, lst) == \E i \in 1..Len(lst) : lst[i] = x

\* A removal that also drops everything in front of the element.
RECURSIVE RemoveThrough(_, _)
RemoveThrough(lst, x) ==
    IF lst = <<>> THEN <<>>
    ELSE IF Head(lst) = x THEN Tail(lst)
    ELSE RemoveThrough(Tail(lst), x)

\* No removal at all.
RemoveNone(lst, x) == lst

RECURSIVE Remove(_, _)
Remove(lst, x) ==
    IF lst = <<>> THEN <<>>
    ELSE IF Head(lst) = x THEN Tail(lst)
    ELSE <<Head(lst)>> \o Remove(Tail(lst), x)

(***************************************************************************)
(* Quantity normalisation, written inline in both create_stocks: the       *)
(* token ">10" gives 100, "1" gives 0, anything else goes through int().   *)
(***************************************************************************)
\* A normalisation without the rule for "1".
StockOfLiteral(count) ==
    IF count = <<">", "1", "0">> THEN [err |-> FALSE, val |-> 100]
    ELSE int(count)

StockOf(count) ==
    IF count = <<">", "1", "0">> THEN [err |-> FALSE, val |-> 100]
    ELSE IF count = <<"1">> THEN [err |-> FALSE, val |-> 0]
    ELSE int(count)

(***************************************************************************)
(* seller.py create_stocks.  The result carries the returned list, the     *)
(* offer_ids list as the call leaves it (it is mutated in place) and       *)
(* whether int() raised.                                                   *)
(***************************************************************************)
SellerStockEntry(offer_id, stock) == [offer_id |-> offer_id, stock |-> stock]

RECURSIVE SellerStubs(_)
SellerStubs(offer_ids) ==
    IF offer_ids = <<>> THEN <<>>
    ELSE <<SellerStockEntry(Head(offer_ids), 0)>> \o SellerStubs(Tail(offer_ids))

RECURSIVE SellerStocksLoop(_, _, _)
SellerStocksLoop(watch_remnants, offer_ids, stocks) ==
    IF watch_remnants = <<>>
    THEN [err |-> FALSE, stocks |-> stocks \o SellerStubs(offer_ids),
          offer_ids |-> offer_ids]
    ELSE LET watch == Head(watch_remnants)
         IN  IF In(watch.Kod, offer_ids)
             THEN LET q == StockOf(watch.Kolichestvo)
                  IN  IF q.err
                      THEN [err |-> TRUE, stocks |-> stocks, offer_ids |-> offer_ids]
                      ELSE SellerStocksLoop(
                               Tail(watch_remnants),
                               Remove(offer_ids, watch.Kod),
                               Append(stocks, SellerStockEntry(watch.Kod, q.val)))
             ELSE SellerStocksLoop(Tail(watch_remnants), offer_ids, stocks)

seller_create_stocks(watch_remnants, offer_ids) ==
    SellerStocksLoop(watch_remnants, offer_ids, <<>>)

(***************************************************************************)
(* market.py create_stocks: the same pass, entries carry the warehouse     *)
(* and the time of the call.                                               *)
(***************************************************************************)
\* The quantity and the time in each other's place.
MarketStockEntrySwapped(sku, warehouse_id, count, date) ==
    [sku |-> sku, warehouseId |-> warehouse_id,
     items |-> <<[count |-> date, type |-> "FIT", updatedAt |-> count]>>]

MarketStockEntry(sku, warehouse_id, count, date) ==
    [sku |-> sku, warehouseId |-> warehouse_id,
     items |-> <<[count |-> count, type |-> "FIT", updatedAt |-> date]>>]

RECURSIVE MarketStubs(_, _, _)
MarketStubs(offer_ids, warehouse_id, date) ==
    IF offer_ids = <<>> THEN <<>>
    ELSE <<MarketStockEntry(Head(offer_ids), warehouse_id, 0, date)>>
         \o MarketStubs(Tail(offer_ids), warehouse_id, date)

RECURSIVE MarketStocksLoop(_, _, _, _, _)
MarketStocksLoop(watch_remnants, offer_ids, warehouse_id, date, stocks) ==
    IF watch_remnants = <<>>
    THEN [err |-> FALSE,
          stocks |-> stocks \o MarketStubs(offer_ids, warehouse_id, date),
          offer_ids |-> offer_ids]
    ELSE LET watch == Head(watch_remnants)
         IN  IF In(watch.Kod, offer_ids)
             THEN LET q == StockOf(watch.Kolichestvo)
                  IN  IF q.err
                      THEN [err |-> TRUE, stocks |-> stocks, offer_ids |-> offer_ids]
                      ELSE MarketStocksLoop(
                               Tail(watch_remnants),
                               Remove(offer_ids, watch.Kod),
                               warehouse_id, date,
                               Append(stocks,
                                      MarketStockEntry(watch.Kod, warehouse_id,
                                                       q.val, date)))
             ELSE MarketStocksLoop(Tail(watch_remnants), offer_ids,
                                   warehouse_id, date, stocks)

market_create_stocks(watch_remnants, offer_ids, warehouse_id, date) ==
    MarketStocksLoop(watch_remnants, offer_ids, warehouse_id, date, <<>>)

(***************************************************************************)
(* create_prices of both files: offer_ids is only read.  seller.py keeps   *)
(* the digit string, market.py passes it through int().                    *)
(***************************************************************************)
SellerPriceEntry(offer_id, price) ==
    [auto_action_enabled |-> "UNKNOWN", currency_code |-> "RUB",
     offer_id |-> offer_id, old_price |-> "0", price |-> price]

RECURSIVE seller_create_prices(_, _)
seller_create_prices(watch_remnants, offer_ids) ==
    IF watch_remnants = <<>> THEN <<>>
    ELSE LET watch == Head(watch_remnants)
         IN  (IF In(watch.Kod, offer_ids)
              THEN <<SellerPriceEntry(watch.Kod, price_conversion(watch.Tsena))>>
              ELSE <<>>)
             \o seller_create_prices(Tail(watch_remnants), offer_ids)

MarketPriceEntry(id, value) ==
    [id |-> id, price |-> [value |-> value, currencyId |-> "RUR"]]

RECURSIVE MarketPricesLoop(_, _, _)
MarketPricesLoop(watch_remnants, offer_ids, prices) ==
    IF watch_remnants = <<>> THEN [err |-> FALSE, prices |-> prices]
    ELSE LET watch == Head(watch_remnants)
         IN  IF In(watch.Kod, offer_ids)
             THEN LET v == int(price_conversion(watch.Tsena))
                  IN  IF v.err THEN [err |-> TRUE, prices |-> prices]
                      ELSE MarketPricesLoop(
                               Tail(watch_remnants), offer_ids,
                               Append(prices, MarketPriceEntry(watch.Kod, v.val)))
             ELSE MarketPricesLoop(Tail(watch_remnants), offer_ids, prices)

market_create_prices(watch_remnants, offer_ids) ==
    MarketPricesLoop(watch_remnants, offer_ids, <<>>)

(***************************************************************************)
(* divide: range(0, len(lst), n) raises for n = 0 and is empty for n < 0.  *)
(***************************************************************************)
Min(a, b) == IF a < b THEN a ELSE b

\* A slice that ends at n instead of i + n.
RECURSIVE DivideFromStart(_, _, _)
DivideFromStart(lst, n, i) ==
    IF i >= Len(lst) THEN <<>>
    ELSE <<SubSeq(lst, i + 1, Min(n, Len(lst)))>> \o DivideFromStart(lst, n, i + n)

RECURSIVE DivideFrom(_, _, _)
DivideFrom(lst, n, i) ==
    IF i >= Len(lst) THEN <<>>
    ELSE <<SubSeq(lst, i + 1, Min(i + n, Len(lst)))>> \o DivideFrom(lst, n, i + n)

divide(lst, n) ==
    IF n = 0 THEN [err |-> TRUE, chunks |-> <<>>]
    ELSE IF n < 0 THEN [err |-> FALSE, chunks |-> <<>>]
    ELSE [err |-> FALSE, chunks |-> DivideFrom(lst, n, 0)]

(***************************************************************************)
(* The programs.  Each entry point of the two files is a program; a run    *)
(* executes one of them.                                                   *)
(***************************************************************************)
SellerProgs == {"seller.main", "seller.upload_prices", "seller.upload_stocks"}
MarketProgs == {"market.main", "market.upload_prices", "market.upload_stocks"}
Progs == SellerProgs \cup MarketProgs
Mains == {"seller.main", "market.main"}

Accounts == {"OZON", "FBS", "DBS"}
ErrorKinds == {"ReadTimeout", "ConnectionError", "Exception"}

VARIABLES
    prog,            \* the entry point being executed
    pc,              \* position in it
    account,         \* client_id / campaign the calls are made for
    watch_remnants,  \* the feed records
    cursor,          \* last_id (seller.py) / page (market.py) in get_offer_ids
    product_list,    \* entries accumulated by get_offer_ids
    total,           \* seller.py: total of the last page
    nreq,            \* page requests issued by this get_offer_ids call
    reqCursor,       \* the cursor the latest of them carried
    served,          \* the entries the server has returned to this call, in order
    lastPage,        \* total and cursor of the server's latest response
    offer_ids,       \* the identifier list, mutated in place by create_stocks
    catalog,         \* per account, the list get_offer_ids returned
    fetched,         \* accounts whose get_offer_ids call has returned
    stocks,
    prices,
    chunks,          \* list(divide(...)) not yet iterated over
    sent,            \* update_stocks / update_price calls made
    coroutines,      \* coroutine objects created and never awaited
    outcome,         \* "running", "done", "failed" (handled in main), "raised"
    printed,         \* which except clause of main printed
    clock,           \* UTC time in seconds
    calls            \* calls made to one function on its own: arguments and result

vars == <<prog, pc, account, watch_remnants, cursor, product_list, total,
          nreq, reqCursor, served, lastPage, offer_ids, catalog, fetched, stocks, prices, chunks, sent,
          coroutines, outcome, printed, clock, calls>>

(***************************************************************************)
(* The environment: feed records and catalog pages.                        *)
(***************************************************************************)
QtyGreater == <<">", "1", "0">>
QtyOne == <<"1">>
QtyPlain == <<"3", "7">>
QtyNegative == <<"-", "5">>
QtyBad == <<"n", "a">>
QtyTokens == {QtyGreater, QtyOne, QtyPlain, QtyNegative, QtyBad}

PriceFull == <<"5", "'", "9", "9", "0", ".", "0", "0", " ", "r">>
PriceBlank == <<"r", ".">>
PriceTokens == {PriceFull, PriceBlank}

Record(id, qty, price) == [Kod |-> id, Kolichestvo |-> qty, Tsena |-> price]

SeqsUpTo(S, n) == UNION {[1..k -> S] : k \in 0..n}

Records(ids, qtys, priceToks) ==
    {Record(i, q, p) : i \in ids, q \in qtys, p \in priceToks}

\* What download_stock may return to a full run.
RunFeeds == SeqsUpTo(Records(Ids, {QtyPlain, QtyBad}, {PriceFull}), MaxRunFeed)

Range(f) == {f[i] : i \in DOMAIN f}
NoDup(lst) == \A i, j \in 1..Len(lst) : lst[i] = lst[j] => i = j

Cursors == {"", "c1"}
Tokens == {None, "", "t1"}
Totals == 0..(MaxPages * MaxPageItems)

\* A page of the listing: the catalog holds every identifier once, so a page
\* brings identifiers the earlier pages did not.
PageItems(seen) ==
    {p \in SeqsUpTo(Ids, MaxPageItems) : NoDup(seen \o p)}

Warehouse(acct) == IF acct = "FBS" THEN "WAREHOUSE_FBS_ID" ELSE "WAREHOUSE_DBS_ID"

StockChunk(p) == IF p \in SellerProgs THEN SellerStockChunk ELSE MarketStockChunk

PriceChunk(p) ==
    IF p = "seller.main" THEN SellerPriceChunk
    ELSE IF p = "seller.upload_prices" THEN SellerUploadPriceChunk
    ELSE MarketPriceChunk

(***************************************************************************)
(* Init: the program is about to run its first statement.                  *)
(***************************************************************************)
FirstPc(p) == IF p = "market.main" THEN "download" ELSE "fetch"
FirstAccount(p) == IF p \in SellerProgs THEN "OZON" ELSE "FBS"

Blank ==
    /\ cursor = ""
    /\ product_list = <<>>
    /\ total = 0
    /\ nreq = 0
    /\ reqCursor = ""
    /\ served = <<>>
    /\ lastPage = [total |-> 0, next |-> ""]
    /\ offer_ids = <<>>
    /\ catalog = [a \in Accounts |-> <<>>]
    /\ fetched = {}
    /\ stocks = <<>>
    /\ prices = <<>>
    /\ chunks = <<>>
    /\ sent = <<>>
    /\ coroutines = 0
    /\ outcome = "running"
    /\ printed = None
    /\ clock = 0
    /\ calls = <<>>

Init ==
    /\ prog \in Progs
    /\ pc = FirstPc(prog)
    /\ account = FirstAccount(prog)
    /\ watch_remnants \in (IF prog \in Mains THEN {<<>>} ELSE RunFeeds)
    /\ Blank

(***************************************************************************)
(* Exceptions.  The two main functions catch everything raised inside      *)
(* their try block and return; the upload_* operations have no handler.    *)
(***************************************************************************)
\* Is the statement at pc inside a try block with handlers?
Handled == prog = "seller.main" \/ (prog = "market.main" /\ pc # "download")

Raise(kind) ==
    /\ pc' = "return"
    /\ outcome' = IF Handled THEN "failed" ELSE "raised"
    /\ printed' = IF Handled THEN kind ELSE printed

(***************************************************************************)
(* get_offer_ids: one page request, then the handling of its response.    *)
(***************************************************************************)
get_product_list ==
    /\ pc = "fetch"
    /\ nreq < MaxPages
    /\ nreq' = nreq + 1
    /\ reqCursor' = cursor
    /\ pc' = "await"
    /\ UNCHANGED <<prog, calls, account, watch_remnants, cursor, product_list, total,
                   served, lastPage, offer_ids, catalog, fetched, stocks, prices, chunks, sent,
                   coroutines, outcome, printed, clock>>

get_product_list_raises ==
    /\ pc = "await"
    /\ \E kind \in ErrorKinds : Raise(kind)
    /\ UNCHANGED <<prog, calls, account, watch_remnants, cursor, product_list, total,
                   nreq, reqCursor, served, lastPage, offer_ids, catalog, fetched, stocks, prices,
                   chunks, sent, coroutines, clock>>

AfterFetchPc(p) ==
    IF p = "seller.main" THEN "download"
    ELSE IF p \in {"seller.upload_prices", "market.upload_prices"} THEN "create_prices"
    ELSE "create_stocks"

\* A loop that also ends above the total.
SellerLoopEndsAtLeast(tot, lst) == tot <= Len(lst)

\* seller.py: break when total == len(product_list).
SellerLoopEnds(tot, lst) == tot = Len(lst)

seller_get_offer_ids ==
    /\ pc = "await"
    /\ prog \in SellerProgs
    /\ \E items \in PageItems(served), tot \in Totals, last_id \in Cursors :
          /\ served' = served \o items
          /\ lastPage' = [total |-> tot, next |-> last_id]
          /\ product_list' = product_list \o items
          /\ total' = tot
          /\ cursor' = last_id
          /\ IF SellerLoopEnds(tot, product_list')
             THEN /\ offer_ids' = product_list'
                  /\ catalog' = [catalog EXCEPT ![account] = product_list']
                  /\ fetched' = fetched \cup {account}
                  /\ pc' = AfterFetchPc(prog)
             ELSE /\ pc' = "fetch"
                  /\ UNCHANGED <<offer_ids, catalog, fetched>>
    /\ UNCHANGED <<prog, calls, account, watch_remnants, nreq, reqCursor, stocks,
                   prices, chunks, sent, coroutines, outcome, printed, clock>>

\* A loop that ends on the empty token only, not on an absent one.
MarketLoopEndsOnEmpty(page) == page = ""

\* market.py: break when "not page".
MarketLoopEnds(page) == page \in {None, ""}

market_get_offer_ids ==
    /\ pc = "await"
    /\ prog \in MarketProgs
    /\ \E items \in PageItems(served), page \in Tokens :
          /\ served' = served \o items
          /\ lastPage' = [total |-> 0, next |-> page]
          /\ product_list' = product_list \o items
          /\ cursor' = page
          /\ IF MarketLoopEnds(page)
             THEN /\ offer_ids' = product_list'
                  /\ catalog' = [catalog EXCEPT ![account] = product_list']
                  /\ fetched' = fetched \cup {account}
                  /\ pc' = AfterFetchPc(prog)
             ELSE /\ pc' = "fetch"
                  /\ UNCHANGED <<offer_ids, catalog, fetched>>
    /\ UNCHANGED <<prog, calls, account, watch_remnants, total, nreq, reqCursor,
                   stocks, prices, chunks, sent, coroutines, outcome, printed,
                   clock>>

(***************************************************************************)
(* download_stock: the feed provider's records, or an exception.           *)
(***************************************************************************)
download_stock ==
    /\ pc = "download"
    /\ watch_remnants' \in RunFeeds
    /\ pc' = IF prog = "market.main" THEN "fetch" ELSE "create_stocks"
    /\ UNCHANGED <<prog, calls, account, cursor, product_list, total, nreq, reqCursor, served, lastPage,
                   offer_ids, catalog, fetched, stocks, prices, chunks, sent,
                   coroutines, outcome, printed, clock>>

download_stock_raises ==
    /\ pc = "download"
    /\ \E kind \in ErrorKinds : Raise(kind)
    /\ UNCHANGED <<prog, calls, account, watch_remnants, cursor, product_list, total,
                   nreq, reqCursor, served, lastPage, offer_ids, catalog, fetched, stocks, prices,
                   chunks, sent, coroutines, clock>>

Goto(next) ==
    /\ pc' = next
    /\ outcome' = IF next = "return" THEN "done" ELSE outcome
    /\ printed' = printed

(***************************************************************************)
(* create_stocks and the list(divide(stocks, n)) of the loop that follows. *)
(***************************************************************************)
AfterStocksPc(p) ==
    IF p = "seller.main" THEN "create_prices"
    ELSE IF p = "market.main" THEN "upload_prices"
    ELSE "return"

CreateStocksResult(now) ==
    IF prog \in SellerProgs
    THEN seller_create_stocks(watch_remnants, offer_ids)
    ELSE market_create_stocks(watch_remnants, offer_ids, Warehouse(account), now)

create_stocks ==
    /\ pc = "create_stocks"
    /\ \E now \in (IF prog \in SellerProgs THEN {clock} ELSE clock..MaxClock) :
          LET r == CreateStocksResult(now)
              batches == divide(r.stocks, StockChunk(prog)).chunks
          IN  /\ clock' = now
              /\ offer_ids' = r.offer_ids
              /\ IF r.err
                 THEN /\ Raise("Exception")
                      /\ UNCHANGED <<stocks, chunks>>
                 ELSE /\ stocks' = r.stocks
                      /\ chunks' = batches
                      /\ Goto(IF batches = <<>> THEN AfterStocksPc(prog)
                              ELSE "send_stocks")
    /\ UNCHANGED <<prog, calls, account, watch_remnants, cursor, product_list, total,
                   nreq, reqCursor, served, lastPage, catalog, fetched, prices, sent, coroutines>>

(***************************************************************************)
(* The dispatch loops: one update_stocks / update_price call per chunk.    *)
(***************************************************************************)
Call(kind, batch, ok) == [account |-> account, kind |-> kind, batch |-> batch, ok |-> ok]

update_stocks ==
    /\ pc = "send_stocks"
    /\ chunks # <<>>
    /\ sent' = Append(sent, Call("stocks", Head(chunks), TRUE))
    /\ chunks' = Tail(chunks)
    /\ Goto(IF Tail(chunks) = <<>> THEN AfterStocksPc(prog) ELSE "send_stocks")
    /\ UNCHANGED <<prog, calls, account, watch_remnants, cursor, product_list, total,
                   nreq, reqCursor, served, lastPage, offer_ids, catalog, fetched, stocks, prices,
                   coroutines, clock>>

\* A failed update_stocks call that is swallowed: the loop goes on to the
\* next chunk.
update_stocks_swallowed ==
    /\ pc = "send_stocks"
    /\ chunks # <<>>
    /\ sent' = Append(sent, Call("stocks", Head(chunks), FALSE))
    /\ chunks' = Tail(chunks)
    /\ Goto(IF Tail(chunks) = <<>> THEN AfterStocksPc(prog) ELSE "send_stocks")
    /\ UNCHANGED <<prog, calls, account, watch_remnants, cursor, product_list, total,
                   nreq, reqCursor, served, lastPage, offer_ids, catalog,
                   fetched, stocks, prices, coroutines, clock>>

update_stocks_raises ==
    /\ pc = "send_stocks"
    /\ chunks # <<>>
    /\ sent' = Append(sent, Call("stocks", Head(chunks), FALSE))
    /\ \E kind \in ErrorKinds : Raise(kind)
    /\ UNCHANGED <<prog, calls, account, watch_remnants, cursor, product_list, total,
                   nreq, reqCursor, served, lastPage, offer_ids, catalog, fetched, stocks, prices,
                   chunks, coroutines, clock>>

CreatePricesResult ==
    IF prog \in SellerProgs
    THEN [err |-> FALSE, prices |-> seller_create_prices(watch_remnants, offer_ids)]
    ELSE market_create_prices(watch_remnants, offer_ids)

\* A create_prices that removes the identifiers it matches from offer_ids,
\* the way create_stocks does.
create_prices_consuming ==
    /\ pc = "create_prices"
    /\ LET r == CreatePricesResult
           batches == divide(r.prices, PriceChunk(prog)).chunks
       IN  IF r.err
           THEN /\ Raise("Exception")
                /\ UNCHANGED <<prices, chunks>>
           ELSE /\ prices' = r.prices
                /\ chunks' = batches
                /\ Goto(IF batches = <<>> THEN "return" ELSE "send_prices")
    /\ offer_ids' = SelectSeq(offer_ids,
                              LAMBDA x : \A i \in 1..Len(watch_remnants) :
                                             watch_remnants[i].Kod # x)
    /\ UNCHANGED <<prog, calls, account, watch_remnants, cursor, product_list, total,
                   nreq, reqCursor, served, lastPage, catalog, fetched, stocks, sent,
                   coroutines, clock>>

create_prices ==
    /\ pc = "create_prices"
    /\ LET r == CreatePricesResult
           batches == divide(r.prices, PriceChunk(prog)).chunks
       IN  IF r.err
           THEN /\ Raise("Exception")
                /\ UNCHANGED <<prices, chunks>>
           ELSE /\ prices' = r.prices
                /\ chunks' = batches
                /\ Goto(IF batches = <<>> THEN "return" ELSE "send_prices")
    /\ UNCHANGED <<prog, calls, account, watch_remnants, cursor, product_list, total,
                   nreq, reqCursor, served, lastPage, offer_ids, catalog, fetched, stocks, sent,
                   coroutines, clock>>

update_price ==
    /\ pc = "send_prices"
    /\ chunks # <<>>
    /\ sent' = Append(sent, Call("prices", Head(chunks), TRUE))
    /\ chunks' = Tail(chunks)
    /\ Goto(IF Tail(chunks) = <<>> THEN "return" ELSE "send_prices")
    /\ UNCHANGED <<prog, calls, account, watch_remnants, cursor, product_list, total,
                   nreq, reqCursor, served, lastPage, offer_ids, catalog, fetched, stocks, prices,
                   coroutines, clock>>

update_price_raises ==
    /\ pc = "send_prices"
    /\ chunks # <<>>
    /\ sent' = Append(sent, Call("prices", Head(chunks), FALSE))
    /\ \E kind \in ErrorKinds : Raise(kind)
    /\ UNCHANGED <<prog, calls, account, watch_remnants, cursor, product_list, total,
                   nreq, reqCursor, served, lastPage, offer_ids, catalog, fetched, stocks, prices,
                   chunks, coroutines, clock>>

(***************************************************************************)
(* market.py main calls the coroutine function upload_prices without       *)
(* awaiting it: a coroutine object is created and its body never runs.     *)
(* After the FBS campaign the same try block goes on with DBS.             *)
(***************************************************************************)
upload_prices_call ==
    /\ pc = "upload_prices"
    /\ coroutines' = coroutines + 1
    /\ IF account = "FBS"
       THEN /\ account' = "DBS"
            /\ cursor' = ""
            /\ product_list' = <<>>
            /\ nreq' = 0
            /\ reqCursor' = ""
            /\ served' = <<>>
            /\ lastPage' = [total |-> 0, next |-> ""]
            /\ Goto("fetch")
       ELSE /\ Goto("return")
            /\ UNCHANGED <<account, cursor, product_list, nreq, reqCursor, served,
                           lastPage>>
    /\ UNCHANGED <<prog, calls, watch_remnants, total, offer_ids, catalog, fetched,
                   stocks, prices, chunks, sent, clock>>

Next ==
    \/ get_product_list
    \/ get_product_list_raises
    \/ seller_get_offer_ids
    \/ market_get_offer_ids
    \/ download_stock
    \/ download_stock_raises
    \/ create_stocks
    \/ update_stocks
    \/ update_stocks_raises
    \/ create_prices
    \/ update_price
    \/ update_price_raises
    \/ upload_prices_call

Spec == Init /\ [][Next]_vars

(***************************************************************************)
(* Reading the state.                                                      *)
(***************************************************************************)
FeedIds(feed) == [i \in 1..Len(feed) |-> feed[i].Kod]

\* The batches of the update calls made for an account, in call order.
RECURSIVE BatchesOf(_, _, _)
BatchesOf(log, acct, kind) ==
    IF log = <<>> THEN <<>>
    ELSE (IF Head(log).account = acct /\ Head(log).kind = kind
          THEN <<Head(log).batch>> ELSE <<>>)
         \o BatchesOf(Tail(log), acct, kind)

PriceIds(lst) ==
    [i \in 1..Len(lst) |-> IF prog \in SellerProgs THEN lst[i].offer_id ELSE lst[i].id]

\* Feed records whose identifier is in the list, in feed order.
Matched(feed, remote) == SelectSeq(feed, LAMBDA w : w.Kod \in Range(remote))

\* Identifiers of the list that no feed record carries, in list order.
RemoteOnly(feed, remote) ==
    SelectSeq(remote, LAMBDA id : id \notin Range(FeedIds(feed)))

PricesBuilt == pc = "send_prices" \/ (pc = "return" /\ outcome = "done")

(***************************************************************************)
(* C1: in a seller.py main run the price updates hold one entry for every  *)
(* feed record whose identifier is in the catalog fetched at the start of  *)
(* the run, the identifiers that got a stock entry included.               *)
(***************************************************************************)
C1_PricesCoverCatalog ==
    (prog = "seller.main" /\ PricesBuilt)
        => PriceIds(prices) = FeedIds(Matched(watch_remnants, catalog["OZON"]))

(***************************************************************************)
(* C2: a main run that ends without a failed call has sent every stock     *)
(* batch and every price batch, the chunks of the price updates built from *)
(* the feed and the account's catalog, for each of its accounts.           *)
(***************************************************************************)
RunAccounts == IF prog \in SellerProgs THEN {"OZON"} ELSE {"FBS", "DBS"}

PriceBatchesDue(acct) ==
    IF prog = "seller.main" THEN divide(prices, PriceChunk(prog)).chunks
    ELSE divide(market_create_prices(watch_remnants, catalog[acct]).prices,
                PriceChunk(prog)).chunks

C2_DoneAfterAllBatches ==
    (prog \in Mains /\ outcome = "done")
        => /\ BatchesOf(sent, account, "stocks")
                = divide(stocks, StockChunk(prog)).chunks
           /\ \A acct \in RunAccounts :
                 BatchesOf(sent, acct, "prices") = PriceBatchesDue(acct)

(***************************************************************************)
(* C4 as claimed: the counter paginator issues no further page request     *)
(* once the accumulated count has reached or passed the reported total.    *)
(***************************************************************************)
C4_NoRequestPastTotal ==
    (prog \in SellerProgs /\ pc = "await" /\ nreq > 1)
        => Len(served) < lastPage.total

(***************************************************************************)
(* C4 amended: the counter paginator starts with an empty cursor, passes   *)
(* the last page's last_id with every further request, requests a further  *)
(* page whenever the accumulated count differs from the total of the last  *)
(* page, above it as well as below, and returns exactly when they are      *)
(* equal, with the entries of all pages in order.                          *)
(***************************************************************************)
C4_CounterPaginator ==
    prog \in SellerProgs
        => /\ pc = "await" => reqCursor = (IF nreq = 1 THEN "" ELSE lastPage.next)
           /\ (pc = "await" /\ nreq > 1) => Len(served) # lastPage.total
           /\ (pc = "fetch" /\ nreq >= 1) => Len(served) # lastPage.total
           /\ account \in fetched
                 => /\ Len(served) = lastPage.total
                    /\ catalog[account] = served

C4_Witness ==
    /\ prog \in SellerProgs
    /\ "OZON" \in fetched
    /\ nreq = 2
    /\ Len(served) = 2
    /\ reqCursor = "c1"

\* The loop goes on above the total as well.
C4_WitnessPast ==
    /\ prog \in SellerProgs
    /\ pc = "await"
    /\ nreq = 2
    /\ Len(served) > lastPage.total

(***************************************************************************)
(* C8: the token paginator starts with an empty token, passes each         *)
(* response's continuation token with the next request, stops at the       *)
(* first page whose token is empty or absent, and returns the entries of   *)
(* all pages fetched, that page included, in page order.                   *)
(***************************************************************************)
C8_TokenPaginator ==
    prog \in MarketProgs
        => /\ pc = "await" => reqCursor = (IF nreq = 1 THEN "" ELSE lastPage.next)
           /\ (pc = "await" /\ nreq > 1) => lastPage.next \notin {None, ""}
           /\ (pc = "fetch" /\ nreq >= 1) => lastPage.next \notin {None, ""}
           /\ account \in fetched
                 => /\ lastPage.next \in {None, ""}
                    /\ catalog[account] = served

C8_Witness ==
    /\ prog \in MarketProgs
    /\ account \in fetched
    /\ nreq = 2
    /\ Len(served) = 2
    /\ reqCursor = "t1"
    /\ lastPage.next = None

(***************************************************************************)
(* C9: a failure in the run of one account ends that run only; in          *)
(* market.py the DBS campaign is still fetched after the FBS campaign      *)
(* failed.                                                                 *)
(***************************************************************************)
C9_OtherAccountRuns ==
    (prog = "market.main" /\ pc = "return" /\ outcome = "failed" /\ account = "FBS")
        => "DBS" \in fetched

(***************************************************************************)
(* SpecStocks: create_stocks on every feed and identifier list of the      *)
(* bounds.  The state is the one upload_stocks is in when get_offer_ids    *)
(* has returned the list in a single page.                                 *)
(***************************************************************************)
StockFeeds == SeqsUpTo(Records(StockIds, QtyTokens, {PriceFull}), MaxFeed)

RemoteLists == {r \in SeqsUpTo(StockIds, MaxRemote) : NoDup(r)}

InitStocks ==
    /\ prog \in {"seller.upload_stocks", "market.upload_stocks"}
    /\ pc = "create_stocks"
    /\ account = FirstAccount(prog)
    /\ watch_remnants \in StockFeeds
    /\ offer_ids \in RemoteLists
    /\ catalog = [a \in Accounts |-> IF a = account THEN offer_ids ELSE <<>>]
    /\ fetched = {account}
    /\ product_list = offer_ids
    /\ served = offer_ids
    /\ total = IF prog \in SellerProgs THEN Len(offer_ids) ELSE 0
    /\ lastPage = [total |-> total, next |-> ""]
    /\ cursor = ""
    /\ nreq = 1
    /\ reqCursor = ""
    /\ stocks = <<>>
    /\ prices = <<>>
    /\ chunks = <<>>
    /\ sent = <<>>
    /\ coroutines = 0
    /\ outcome = "running"
    /\ printed = None
    /\ clock = 0
    /\ calls = <<>>

NextStocks == create_stocks

SpecStocks == InitStocks /\ [][NextStocks]_vars

StockEntry(id, count) ==
    IF prog \in SellerProgs THEN SellerStockEntry(id, count)
    ELSE MarketStockEntry(id, Warehouse(account), count, clock)

Quantity(entry) ==
    IF prog \in SellerProgs THEN entry.stock ELSE entry.items[1].count

StocksCalled == pc # "create_stocks"
StocksReturned == pc # "create_stocks" /\ outcome # "raised" /\ outcome # "failed"

\* The list the claims describe: the matched feed records in feed order,
\* then a zero stub per identifier no feed record carries, in list order.
StocksExpected(feed, remote) ==
    LET m == Matched(feed, remote)
        z == RemoteOnly(feed, remote)
    IN  [i \in 1..Len(m) |-> StockEntry(m[i].Kod, StockOf(m[i].Kolichestvo).val)]
        \o [j \in 1..Len(z) |-> StockEntry(z[j], 0)]

MatchedUnparsable(feed, remote) ==
    \E i \in 1..Len(feed) :
        feed[i].Kod \in Range(remote) /\ StockOf(feed[i].Kolichestvo).err

C3_WitnessEmptyRemote ==
    /\ StocksReturned
    /\ watch_remnants # <<>>
    /\ catalog[account] = <<>>
    /\ stocks = <<>>

(***************************************************************************)
(* C7 as claimed: the identifier list given to create_stocks is empty      *)
(* when it returns.                                                        *)
(***************************************************************************)
C7_WorkingSetEmpty == StocksReturned => offer_ids = <<>>

(***************************************************************************)
(* C7 amended: when create_stocks returns, the identifier list it was      *)
(* given holds exactly the identifiers no feed record carries, the ones    *)
(* emitted as zero stubs, in their order; the matched ones are removed.    *)
(***************************************************************************)
C7_WorkingSetLeftover ==
    StocksReturned => offer_ids = RemoteOnly(watch_remnants, catalog[account])

C7_Witness ==
    /\ StocksReturned
    /\ Len(catalog[account]) = 2
    /\ Len(offer_ids) = 1
    /\ Len(stocks) = 2
    /\ Quantity(stocks[1]) # 0

(***************************************************************************)
(* C10: every entry create_stocks returns has a quantity of at least 0,    *)
(* for a feed whose quantity tokens are ">10", "1" or parse as integers.   *)
(***************************************************************************)
QuantitiesParse(feed) ==
    \A i \in 1..Len(feed) :
        \/ feed[i].Kolichestvo \in {QtyGreater, QtyOne}
        \/ ~int(feed[i].Kolichestvo).err

C10_QuantityNonNegative ==
    (StocksReturned /\ QuantitiesParse(watch_remnants))
        => \A i \in 1..Len(stocks) : Quantity(stocks[i]) >= 0

(***************************************************************************)
(* C13: the quantity of an entry create_stocks builds follows the rule     *)
(* table, in both files: ">10" gives 100, "1" gives 0, another token that  *)
(* parses as an integer gives that integer, and a listed record whose      *)
(* token does not parse makes the call raise instead of giving an entry.   *)
(***************************************************************************)
RuleTable(token) ==
    CASE token = QtyGreater -> [err |-> FALSE, val |-> 100]
      [] token = QtyOne -> [err |-> FALSE, val |-> 0]
      [] token = QtyPlain -> [err |-> FALSE, val |-> 37]
      [] token = QtyNegative -> [err |-> FALSE, val |-> 0 - 5]
      [] OTHER -> [err |-> TRUE, val |-> 0]

C13_QuantityRules ==
    (StocksCalled /\ NoDup(FeedIds(watch_remnants)))
        => LET m == Matched(watch_remnants, catalog[account])
           IN  IF \E i \in 1..Len(m) : RuleTable(m[i].Kolichestvo).err
               THEN outcome = "raised"
               ELSE /\ outcome # "raised"
                    /\ Len(stocks) >= Len(m)
                    /\ \A i \in 1..Len(m) :
                          Quantity(stocks[i]) = RuleTable(m[i].Kolichestvo).val

\* Both literal rules at work in one call.
C13_Witness ==
    /\ StocksReturned
    /\ Len(watch_remnants) = 2
    /\ NoDup(FeedIds(watch_remnants))
    /\ watch_remnants[1].Kolichestvo = QtyOne
    /\ watch_remnants[2].Kolichestvo = QtyGreater
    /\ Len(stocks) = 2
    /\ Quantity(stocks[1]) = 0
    /\ Quantity(stocks[2]) = 100
    /\ offer_ids = <<>>

\* int() at work: a plain and a signed token.
C13_WitnessInt ==
    /\ StocksReturned
    /\ Len(watch_remnants) = 2
    /\ watch_remnants[1].Kolichestvo = QtyPlain
    /\ watch_remnants[2].Kolichestvo = QtyNegative
    /\ Len(stocks) = 2
    /\ Quantity(stocks[1]) = 37
    /\ Quantity(stocks[2]) = 0 - 5

\* The format error: the listed record's token does not parse.
C13_WitnessRaises ==
    /\ StocksCalled
    /\ outcome = "raised"
    /\ Len(watch_remnants) = 2
    /\ watch_remnants[1].Kolichestvo = QtyGreater
    /\ watch_remnants[2].Kolichestvo = QtyBad
    /\ watch_remnants[2].Kod \in Range(catalog[account])

(***************************************************************************)
(* C16: for an identifier list without duplicates and any feed, repeated   *)
(* identifiers included, the list create_stocks returns holds every listed *)
(* identifier exactly once; an identifier some feed record carries gets    *)
(* the entry of the first such record and no zero stub besides.            *)
(***************************************************************************)
EntryId(entry) == IF prog \in SellerProgs THEN entry.offer_id ELSE entry.sku

FirstRecord(feed, id) ==
    feed[CHOOSE i \in 1..Len(feed) :
            /\ feed[i].Kod = id
            /\ \A j \in 1..(i - 1) : feed[j].Kod # id]

EntriesOf(lst, id) == {i \in 1..Len(lst) : EntryId(lst[i]) = id}

C16_EachIdOnce ==
    (StocksReturned /\ NoDup(catalog[account]))
        => /\ Len(stocks) = Len(catalog[account])
           /\ \A id \in Range(catalog[account]) :
                 /\ Cardinality(EntriesOf(stocks, id)) = 1
                 /\ \A i \in EntriesOf(stocks, id) :
                       Quantity(stocks[i]) =
                           (IF id \in Range(FeedIds(watch_remnants))
                            THEN RuleTable(FirstRecord(watch_remnants, id).Kolichestvo).val
                            ELSE 0)

\* The feed repeats a listed identifier with two different quantities.
C16_Witness ==
    /\ StocksReturned
    /\ Len(watch_remnants) = 2
    /\ watch_remnants[1].Kod = watch_remnants[2].Kod
    /\ watch_remnants[1].Kolichestvo = QtyPlain
    /\ watch_remnants[2].Kolichestvo = QtyGreater
    /\ Len(catalog[account]) = 2
    /\ catalog[account][2] = watch_remnants[1].Kod
    /\ Len(stocks) = 2
    /\ Quantity(stocks[1]) = 37
    /\ Quantity(stocks[2]) = 0

\* The repeated record's token does not parse and is never read.
C16_WitnessSkipped ==
    /\ StocksReturned
    /\ Len(watch_remnants) = 2
    /\ watch_remnants[1].Kod = watch_remnants[2].Kod
    /\ watch_remnants[2].Kolichestvo = QtyBad
    /\ Len(stocks) = 1
    /\ Quantity(stocks[1]) = 100

(***************************************************************************)
(* SpecBatch: the dispatch loops at the chunk sizes of the code.  A run    *)
(* starts where a loop is about to send its first chunk, with a list long  *)
(* enough for up to MaxChunks full chunks and one more entry: a catalog of *)
(* n identifiers none of which is in the feed (n zero stubs) for the stock *)
(* loops, a feed of n records all listed for the price loops.  seller.py   *)
(* main has no such state for its price loop, whose list holds no entry    *)
(* when the catalog has no duplicates.                                     *)
(***************************************************************************)
BatchLens(size) ==
    {n \in {k * size + d : k \in 0..MaxChunks, d \in {-1, 0, 1}} : n >= 1}

StockLoops ==
    {<<"seller.main", "OZON">>, <<"seller.upload_stocks", "OZON">>,
     <<"market.main", "FBS">>, <<"market.main", "DBS">>,
     <<"market.upload_stocks", "FBS">>}

PriceLoops ==
    {<<"seller.upload_prices", "OZON">>, <<"market.upload_prices", "FBS">>}

BulkIds(n) == [i \in 1..n |-> i]

BulkStocks(p, acct, n) ==
    [i \in 1..n |-> IF p \in SellerProgs THEN SellerStockEntry(i, 0)
                    ELSE MarketStockEntry(i, Warehouse(acct), 0, 0)]

BulkFeed(n) == [i \in 1..n |-> Record(i, QtyPlain, PriceFull)]

BulkPrices(p, n) ==
    [i \in 1..n |-> IF p \in SellerProgs
                    THEN SellerPriceEntry(i, price_conversion(PriceFull))
                    ELSE MarketPriceEntry(i, int(price_conversion(PriceFull)).val)]

InitBatch ==
    /\ \E loop \in StockLoops \cup PriceLoops :
          /\ prog = loop[1]
          /\ account = loop[2]
          /\ IF loop \in StockLoops
             THEN \E n \in BatchLens(StockChunk(prog)) :
                     /\ pc = "send_stocks"
                     /\ watch_remnants = <<>>
                     /\ offer_ids = BulkIds(n)
                     /\ stocks = BulkStocks(prog, account, n)
                     /\ prices = <<>>
                     /\ chunks = divide(stocks, StockChunk(prog)).chunks
             ELSE \E n \in BatchLens(PriceChunk(prog)) :
                     /\ pc = "send_prices"
                     /\ watch_remnants = BulkFeed(n)
                     /\ offer_ids = BulkIds(n)
                     /\ stocks = <<>>
                     /\ prices = BulkPrices(prog, n)
                     /\ chunks = divide(prices, PriceChunk(prog)).chunks
    /\ catalog = [a \in Accounts |-> IF a = account THEN offer_ids ELSE <<>>]
    /\ fetched = IF account = "DBS" THEN {"FBS", "DBS"} ELSE {account}
    /\ product_list = offer_ids
    /\ served = offer_ids
    /\ total = IF prog \in SellerProgs THEN Len(offer_ids) ELSE 0
    /\ lastPage = [total |-> total, next |-> ""]
    /\ cursor = ""
    /\ nreq = 1
    /\ reqCursor = ""
    /\ sent = <<>>
    /\ coroutines = IF account = "DBS" THEN 1 ELSE 0
    /\ outcome = "running"
    /\ printed = None
    /\ clock = 0
    /\ calls = <<>>

NextBatch ==
    \/ update_stocks
    \/ update_stocks_raises
    \/ update_price
    \/ update_price_raises
    \/ create_prices
    \/ upload_prices_call

SpecBatch == InitBatch /\ [][NextBatch]_vars

(***************************************************************************)
(* C5: every batch passed to an update endpoint is within the limit of     *)
(* its marketplace and operation: seller.py stocks 100 and prices 900,     *)
(* market.py stocks 2000 and prices 500.                                   *)
(***************************************************************************)
ClaimedLimit(p, kind) ==
    IF p \in SellerProgs
    THEN (IF kind = "stocks" THEN SellerStockChunk ELSE SellerPriceChunk)
    ELSE (IF kind = "stocks" THEN MarketStockChunk ELSE MarketPriceChunk)

C5_BatchWithinLimit ==
    \A i \in 1..Len(sent) : Len(sent[i].batch) <= ClaimedLimit(prog, sent[i].kind)

(***************************************************************************)
(* C6: the batches a dispatch loop has sent are a prefix of its chunk      *)
(* sequence, in chunk order and each once; the whole sequence once the     *)
(* loop is through without a failed send; a failed send is the last call   *)
(* of the run: not repeated, and no later batch follows it.                *)
(***************************************************************************)
IsPrefix(a, b) == Len(a) <= Len(b) /\ a = SubSeq(b, 1, Len(a))

LoopChunks(kind) ==
    IF kind = "stocks" THEN divide(stocks, StockChunk(prog)).chunks
    ELSE divide(prices, PriceChunk(prog)).chunks

StockLoopThrough ==
    \/ pc \in {"create_prices", "send_prices", "upload_prices"}
    \/ pc = "return" /\ outcome = "done" /\ prog \notin {"seller.upload_prices",
                                                         "market.upload_prices"}

PriceLoopThrough ==
    /\ pc = "return"
    /\ outcome = "done"
    /\ prog \in {"seller.main", "seller.upload_prices", "market.upload_prices"}

C6_SentIsPrefix ==
    /\ \A kind \in {"stocks", "prices"} :
          IsPrefix(BatchesOf(sent, account, kind), LoopChunks(kind))
    /\ StockLoopThrough => BatchesOf(sent, account, "stocks") = LoopChunks("stocks")
    /\ PriceLoopThrough => BatchesOf(sent, account, "prices") = LoopChunks("prices")
    /\ \A i \in 1..Len(sent) :
          ~sent[i].ok => /\ i = Len(sent)
                         /\ pc = "return"
                         /\ outcome \in {"failed", "raised"}

\* A run cut short: the second batch failed, a third was never sent.
C6_Witness ==
    /\ Len(sent) = 2
    /\ sent[1].ok
    /\ ~sent[2].ok
    /\ Len(chunks) = 2
    /\ pc = "return"

\* A run through: three batches, the last one shorter.
C6_WitnessWhole ==
    /\ Len(sent) = 3
    /\ sent[3].ok
    /\ Len(sent[3].batch) = 1
    /\ outcome = "done"

(***************************************************************************)
(* SpecDivide: list(divide(lst, n)) on every list and size of the bounds,  *)
(* the sizes 0 and below included.                                         *)
(***************************************************************************)
DivideLists == SeqsUpTo(Ids, MaxItems)

DivideSizes == (0 - MaxSize)..MaxSize

InitDivide ==
    /\ prog = "divide"
    /\ pc = "divide"
    /\ account = "OZON"
    /\ watch_remnants = <<>>
    /\ stocks \in DivideLists
    /\ cursor = ""
    /\ product_list = <<>>
    /\ total = 0
    /\ nreq = 0
    /\ reqCursor = ""
    /\ served = <<>>
    /\ lastPage = [total |-> 0, next |-> ""]
    /\ offer_ids = <<>>
    /\ catalog = [a \in Accounts |-> <<>>]
    /\ fetched = {}
    /\ prices = <<>>
    /\ chunks = <<>>
    /\ sent = <<>>
    /\ coroutines = 0
    /\ outcome = "running"
    /\ printed = None
    /\ clock = 0
    /\ calls = <<>>

list_divide ==
    /\ prog = "divide"
    /\ pc = "divide"
    /\ \E n \in DivideSizes :
          LET r == divide(stocks, n)
          IN  /\ calls' = Append(calls, [lst |-> stocks, n |-> n,
                                         err |-> r.err, chunks |-> r.chunks])
              /\ pc' = "return"
              /\ outcome' = IF r.err THEN "raised" ELSE "done"
    /\ UNCHANGED <<prog, account, watch_remnants, cursor, product_list, total,
                   nreq, reqCursor, served, lastPage, offer_ids, catalog, fetched, stocks,
                   prices, chunks, sent, coroutines, printed, clock>>

NextDivide == list_divide

SpecDivide == InitDivide /\ [][NextDivide]_vars

DivideCalls == IF prog = "divide" THEN Range(calls) ELSE {}

(***************************************************************************)
(* C11: divide raises for every size of 0 or below, 0 and the negative     *)
(* sizes alike, and yields nothing then.                                   *)
(***************************************************************************)
C11_NonPositiveSizeFails ==
    \A c \in DivideCalls : c.n <= 0 => c.err

RECURSIVE Concat(_)
Concat(ss) == IF ss = <<>> THEN <<>> ELSE Head(ss) \o Concat(Tail(ss))

(***************************************************************************)
(* C12: for a size above 0 divide raises nothing and yields chunks whose   *)
(* concatenation in order is the list; no chunk is empty, every chunk but  *)
(* the last has exactly n items, the last has len(lst) mod n items when    *)
(* that is not 0 and n items otherwise; an empty list yields no chunk.     *)
(***************************************************************************)
C12_ChunksPartition ==
    \A c \in DivideCalls :
        c.n > 0 =>
            /\ ~c.err
            /\ Concat(c.chunks) = c.lst
            /\ \A k \in 1..Len(c.chunks) : Len(c.chunks[k]) > 0
            /\ \A k \in 1..(Len(c.chunks) - 1) : Len(c.chunks[k]) = c.n
            /\ c.chunks # <<>> =>
                  Len(c.chunks[Len(c.chunks)]) =
                      (IF Len(c.lst) % c.n # 0 THEN Len(c.lst) % c.n ELSE c.n)
            /\ c.lst = <<>> => c.chunks = <<>>

\* A full chunk and a short last one.
C12_Witness ==
    \E c \in DivideCalls :
        /\ c.n = 2
        /\ Len(c.lst) = 3
        /\ Len(c.chunks) = 2
        /\ Len(c.chunks[2]) = 1

\* The list ends on a chunk boundary.
C12_WitnessFull ==
    \E c \in DivideCalls :
        /\ c.n = 2
        /\ Len(c.lst) = 4
        /\ Len(c.chunks) = 2
        /\ Len(c.chunks[2]) = 2

(***************************************************************************)
(* SpecPrices: create_prices on every feed and identifier list of the      *)
(* bounds, called a second time on the lists the first call leaves.  The   *)
(* state is the one upload_prices is in when get_offer_ids has returned    *)
(* the list in a single page.                                              *)
(***************************************************************************)
PriceFeeds == SeqsUpTo(Records(StockIds, {QtyPlain}, PriceTokens), MaxFeed)

InitPrices ==
    /\ prog \in {"seller.upload_prices", "market.upload_prices"}
    /\ pc = "create_prices"
    /\ account = FirstAccount(prog)
    /\ watch_remnants \in PriceFeeds
    /\ offer_ids \in RemoteLists
    /\ catalog = [a \in Accounts |-> IF a = account THEN offer_ids ELSE <<>>]
    /\ fetched = {account}
    /\ product_list = offer_ids
    /\ served = offer_ids
    /\ total = IF prog \in SellerProgs THEN Len(offer_ids) ELSE 0
    /\ lastPage = [total |-> total, next |-> ""]
    /\ cursor = ""
    /\ nreq = 1
    /\ reqCursor = ""
    /\ stocks = <<>>
    /\ prices = <<>>
    /\ chunks = <<>>
    /\ sent = <<>>
    /\ coroutines = 0
    /\ outcome = "running"
    /\ printed = None
    /\ clock = 0
    /\ calls = <<>>

\* The second call: the same feed, the identifier list as it is now.
create_prices_again ==
    /\ pc # "create_prices"
    /\ calls = <<>>
    /\ LET r == CreatePricesResult
       IN  calls' = <<[watch_remnants |-> watch_remnants, offer_ids |-> offer_ids,
                       err |-> r.err, prices |-> r.prices]>>
    /\ UNCHANGED <<prog, pc, account, watch_remnants, cursor, product_list, total,
                   nreq, reqCursor, served, lastPage, offer_ids, catalog, fetched, stocks,
                   prices, chunks, sent, coroutines, outcome, printed, clock>>

NextPrices ==
    \/ create_prices
    \/ create_prices_again

SpecPrices == InitPrices /\ [][NextPrices]_vars

PricesCalled == prog \in {"seller.upload_prices", "market.upload_prices"} /\ pc # "create_prices"

(***************************************************************************)
(* C15: create_prices leaves the identifier list it is given as it was and *)
(* returns one entry per feed record whose identifier is listed, none for  *)
(* a listed identifier no feed record carries; a second call with the same *)
(* feed and list ends as the first did, with an equal list of entries.     *)
(***************************************************************************)
C15_PricesRepeatable ==
    PricesCalled
        => /\ offer_ids = catalog[account]
           /\ outcome # "raised" =>
                  PriceIds(prices) = FeedIds(Matched(watch_remnants, catalog[account]))
           /\ calls # <<>> =>
                  /\ calls[1].offer_ids = catalog[account]
                  /\ calls[1].err = (outcome = "raised")
                  /\ ~calls[1].err => calls[1].prices = prices

\* Two calls on a list with a matched and an unmatched identifier.
C15_Witness ==
    /\ PricesCalled
    /\ calls # <<>>
    /\ ~calls[1].err
    /\ Len(catalog[account]) = 2
    /\ Len(watch_remnants) = 2
    /\ Len(prices) = 1
    /\ Len(calls[1].prices) = 1
    /\ watch_remnants[1].Kod = catalog[account][2]

\* Both calls raise on the price int() cannot read.
C15_WitnessRaises ==
    /\ PricesCalled
    /\ calls # <<>>
    /\ calls[1].err
    /\ outcome = "raised"

(***************************************************************************)
(* SpecRerun: a run from the point where get_offer_ids and download_stock  *)
(* have returned, and then the same program run again, at the same time or *)
(* later, with download_stock returning the same feed and get_offer_ids    *)
(* the same list.  market.py main is taken at its second campaign, after a *)
(* first one whose list was empty.                                         *)
(***************************************************************************)
RunCatalogs == {r \in SeqsUpTo(Ids, MaxRemote) : NoDup(r)}

LastAccount(p) == IF p \in SellerProgs THEN "OZON"
                  ELSE IF p = "market.main" THEN "DBS" ELSE "FBS"

AfterDownloadPc(p) ==
    IF p \in {"seller.upload_prices", "market.upload_prices"} THEN "create_prices"
    ELSE "create_stocks"

InitRerun ==
    /\ prog \in Progs
    /\ pc = AfterDownloadPc(prog)
    /\ account = LastAccount(prog)
    /\ watch_remnants \in RunFeeds
    /\ offer_ids \in RunCatalogs
    /\ catalog = [a \in Accounts |-> IF a = account THEN offer_ids ELSE <<>>]
    /\ fetched = IF account = "DBS" THEN {"FBS", "DBS"} ELSE {account}
    /\ product_list = offer_ids
    /\ served = offer_ids
    /\ total = IF prog \in SellerProgs THEN Len(offer_ids) ELSE 0
    /\ lastPage = [total |-> total, next |-> ""]
    /\ cursor = ""
    /\ nreq = 1
    /\ reqCursor = ""
    /\ stocks = <<>>
    /\ prices = <<>>
    /\ chunks = <<>>
    /\ sent = <<>>
    /\ coroutines = IF account = "DBS" THEN 1 ELSE 0
    /\ outcome = "running"
    /\ printed = None
    /\ clock = 0
    /\ calls = <<>>

\* The program is started again once it has returned: the calls it made are
\* kept aside, the new process has the same feed and identifier list.
rerun ==
    /\ pc = "return"
    /\ outcome = "done"
    /\ calls = <<>>
    /\ calls' = <<[sent |-> sent, clock |-> clock]>>
    /\ pc' = AfterDownloadPc(prog)
    /\ outcome' = "running"
    /\ offer_ids' = catalog[account]
    /\ stocks' = <<>>
    /\ prices' = <<>>
    /\ chunks' = <<>>
    /\ sent' = <<>>
    /\ coroutines' = IF account = "DBS" THEN 1 ELSE 0
    /\ UNCHANGED <<prog, account, watch_remnants, cursor, product_list, total,
                   nreq, reqCursor, served, lastPage, catalog, fetched, printed, clock>>

NextRerun ==
    \/ create_stocks
    \/ update_stocks
    \/ create_prices
    \/ update_price
    \/ upload_prices_call
    \/ rerun

SpecRerun == InitRerun /\ [][NextRerun]_vars

SecondRunDone == calls # <<>> /\ pc = "return" /\ outcome = "done"

UntimedEntry(e) == [e EXCEPT !.items = <<[e.items[1] EXCEPT !.updatedAt = 0]>>]

UntimedBatch(b) == [k \in 1..Len(b) |-> UntimedEntry(b[k])]

\* The calls of a log with the updatedAt of market.py stock entries blanked.
Untimed(log) ==
    [i \in 1..Len(log) |->
        IF log[i].kind = "stocks" /\ log[i].account # "OZON"
        THEN [log[i] EXCEPT !.batch = UntimedBatch(log[i].batch)]
        ELSE log[i]]

C14_WitnessSeller ==
    /\ SecondRunDone
    /\ prog = "seller.upload_prices"
    /\ Len(sent) = 1
    /\ sent[1].kind = "prices"
    /\ sent = calls[1].sent

====
